---- MODULE Spec2Model ----
(***************************************************************************)
(* Model of python-captcha-solver/captcha_solver.py: a Flask service with  *)
(* three POST endpoints (/analyze-strategy, /solve-captcha,                *)
(* /analyze-state) that forward a screenshot to a hosted model and turn    *)
(* the model's function calls into pixel-coordinate actions.               *)
(***************************************************************************)
EXTENDS Integers, Sequences, FiniteSets, TLC

VARIABLES
    pc,       \* position of the handler: "idle", "calling", "responded"
    req,      \* the request being handled: [endpoint, kind, json]
    vw,       \* locals screen_width / screen_height of the running handler
    calls,    \* number of client.models.generate_content calls of this request
    reply,    \* what the model call of this request produced
    status,   \* HTTP status of the response
    payload,  \* JSON body of the response
    dn,       \* argument/result cell of the coordinate functions: [fn, v, d, out]
    slots,    \* concurrent requests: one handler record per worker
    glob      \* module globals SCREEN_WIDTH / SCREEN_HEIGHT as the workers see them

vars == <<pc, req, vw, calls, reply, status, payload, dn, slots, glob>>

----------------------------------------------------------------------------
(* Python float arithmetic.  A float is m * 2^e, m a natural number below *)
(* 2^MantissaBits (IEEE-754 binary64, round to nearest, ties to even).     *)
(* m is kept as a sequence of 16-bit limbs, most significant first,        *)
(* because it does not fit a machine integer of the checker.               *)

MantissaBits == 53

RECURSIVE IntLimbs(_)
IntLimbs(n) == IF n = 0 THEN <<>> ELSE Append(IntLimbs(n \div 65536), n % 65536)

RECURSIVE ToInt(_)
ToInt(m) == IF m = <<>> THEN 0
            ELSE 65536 * ToInt(SubSeq(m, 1, Len(m) - 1)) + m[Len(m)]

\* m without its leading zero limbs
StripLimbs(m) ==
    IF \A i \in 1..Len(m) : m[i] = 0 THEN <<>>
    ELSE LET first == CHOOSE i \in 1..Len(m) :
                          m[i] # 0 /\ \A j \in 1..(i - 1) : m[j] = 0
         IN  SubSeq(m, first, Len(m))

\* number of significant bits of m (m without leading zero limbs)
BitLen(m) ==
    IF m = <<>> THEN 0
    ELSE 16 * (Len(m) - 1) + (CHOOSE k \in 1..16 : m[1] < 2 ^ k /\ m[1] >= 2 ^ (k - 1))

\* bit i of m, bit 0 the least significant
Bit(m, i) == (m[Len(m) - (i \div 16)] \div (2 ^ (i % 16))) % 2

\* some of the k least significant bits of m is set
LowBitsSet(m, k) ==
    \/ \E j \in (Len(m) - (k \div 16) + 1)..Len(m) : m[j] # 0
    \/ (k % 16 > 0 /\ m[Len(m) - (k \div 16)] % (2 ^ (k % 16)) # 0)

\* m \div 2^t
ShiftRight(m, t) ==
    LET q == t \div 16
        r == t % 16
    IN  [i \in 1..(Len(m) - q) |->
            (m[i] \div (2 ^ r))
            + (IF i > 1 THEN (m[i - 1] % (2 ^ r)) * (2 ^ (16 - r)) ELSE 0)]

\* m + 1
Inc(m) ==
    LET n == Len(m)
        r == [i \in 1..n |-> IF \A j \in (i + 1)..n : m[j] = 65535
                             THEN (m[i] + 1) % 65536 ELSE m[i]]
    IN  IF \A j \in 1..n : m[j] = 65535 THEN <<1>> \o r ELSE r

\* round to nearest, ties to even: keep is s \div 2^t
RoundCut(s, t, keep, sticky) ==
    IF /\ Bit(s, t - 1) = 1
       /\ (sticky \/ LowBitsSet(s, t - 1) \/ keep[Len(keep)] % 2 = 1)
    THEN Inc(keep)
    ELSE keep

\* s without leading zero limbs, t the number of bits beyond MantissaBits
RoundStripped(s, t, sticky) ==
    IF t <= 0
    THEN [m |-> s, drop |-> 0]
    ELSE [m |-> RoundCut(s, t, ShiftRight(s, t), sticky), drop |-> t]

RoundOf(s, sticky) == RoundStripped(s, BitLen(s) - MantissaBits, sticky)

\* round m (followed by a non-zero tail iff sticky) to MantissaBits
\* significant bits; drop is the number of bits cut off
RoundBits(m, sticky) == RoundOf(StripLimbs(m), sticky)

\* k limbs of the expansion of r / den in base 65536, 0 <= r < den
RECURSIVE FracLimbs(_, _, _)
FracLimbs(r, den, k) ==
    IF k = 0 THEN <<>>
    ELSE <<(65536 * r) \div den>> \o FracLimbs((65536 * r) % den, den, k - 1)

\* the remainder left after those k limbs
RECURSIVE FracRem(_, _, _)
FracRem(r, den, k) ==
    IF k = 0 THEN r ELSE FracRem((65536 * r) % den, den, k - 1)

\* a / b of two ints (Python true division, correctly rounded); 5 fraction
\* limbs hold MantissaBits + 1 significant bits of any a / 1000 >= 1/1000
Scaled(r, e) == [m |-> r.m, e |-> r.drop + e]

TrueDiv(a, b) ==
    Scaled(RoundBits(IntLimbs(a \div b) \o FracLimbs(a % b, b, 5),
                     FracRem(a % b, b, 5) # 0),
           0 - 80)

\* limbs of m * d, from the least significant limb up
RECURSIVE MulAcc(_, _, _, _)
MulAcc(m, d, i, carry) ==
    IF i = 0 THEN IntLimbs(carry)
    ELSE Append(MulAcc(m, d, i - 1, (m[i] * d + carry) \div 65536),
                (m[i] * d + carry) % 65536)

\* float * int (the int converts to float exactly)
FloatMul(f, d) == Scaled(RoundBits(MulAcc(f.m, d, Len(f.m), 0), FALSE), f.e)

\* int(f) for f >= 0
Trunc(f) ==
    IF f.e >= 0 THEN ToInt(f.m) * (2 ^ f.e)
    ELSE ToInt(StripLimbs(ShiftRight(f.m, 0 - f.e)))

----------------------------------------------------------------------------
(* Configuration and the coordinate functions                              *)

SCREEN_WIDTH == 1440
SCREEN_HEIGHT == 900

\* largest normalized coordinate
MaxNorm == 999

denormalize_x(x, screen_width) == Trunc(FloatMul(TrueDiv(x, 1000), screen_width))

denormalize_y(y, screen_height) == Trunc(FloatMul(TrueDiv(y, 1000), screen_height))

----------------------------------------------------------------------------
(* Requests.  request.json either raises (body is not parseable JSON),     *)
(* is None (body is the JSON text null) or is a dict.                      *)

\* A screenshot string is either accepted by base64.b64decode or makes it
\* raise binascii.Error; only that outcome matters to the handlers.
Decodable == {"", "iVBORw0KGgo="}
Screenshots == {"not-base64"} \cup Decodable

\* caller-supplied viewport dimensions
Widths == {1000}
Heights == {600}

MkObj(S, s, w, h) ==
    [k \in S |-> CASE k = "screenshot" -> s
                   [] k = "screen_width" -> w
                   [] k = "screen_height" -> h]

Objects == { MkObj(S, s, w, h) :
                S \in SUBSET {"screenshot", "screen_width", "screen_height"},
                s \in Screenshots, w \in Widths, h \in Heights }

Endpoints == {"analyze_strategy", "solve_captcha", "analyze_state"}

Requests(ep) ==
    { [endpoint |-> ep, kind |-> "unparseable", json |-> <<>>],
      [endpoint |-> ep, kind |-> "null", json |-> <<>>] }
    \cup { [endpoint |-> ep, kind |-> "object", json |-> o] : o \in Objects }

NoReq == [endpoint |-> "none", kind |-> "none", json |-> <<>>]

\* data.get(key, default)
Get(data, key, default) == IF key \in DOMAIN data THEN data[key] ELSE default

\* mutant: only a missing key counts, an empty string passes
NoScreenshot_KeyOnly(data) == "screenshot" \notin DOMAIN data

\* `not screenshot_b64`: the key is missing (None) or the string is empty
NoScreenshot(data) == Get(data, "screenshot", "") = ""

\* base64.b64decode(screenshot_b64) raises
DecodeRaises(data) == data["screenshot"] \notin Decodable

----------------------------------------------------------------------------
(* What client.models.generate_content produces: it raises, or returns a   *)
(* response without candidates, or a candidate with an ordered list of     *)
(* parts, each a text or a function call (name, args).  Argument keys are  *)
(* the properties of the declared function schema.                         *)

\* longest list of parts of a reply
MaxParts == 2

CoordArgs(S) ==
    [k \in S |-> CASE k = "x" -> 175
                   [] k = "y" -> 500
                   [] k = "destination_x" -> 350
                   [] k = "destination_y" -> 999]

Call(name, args) == [kind |-> "call", name |-> name, args |-> args]
Text(t) == [kind |-> "text", text |-> t]

FunctionCalls ==
    { Call("drag_and_drop", CoordArgs(S)) :
        S \in SUBSET {"x", "y", "destination_x", "destination_y"} }
    \cup { Call("click_at", ("x" :> 999) @@ ("y" :> 0)),
           Call("click_at", ("x" :> 999)),
           Call("type_text_at", ("x" :> 700) @@ ("y" :> 999) @@ ("text" :> "abc")
                                 @@ ("press_enter" :> TRUE)),
           Call("wait_5_seconds", <<>>) }

Parts == FunctionCalls \cup {Text("Solved")}

RECURSIVE SeqsUpTo(_, _)
SeqsUpTo(S, n) ==
    IF n = 0 THEN {<<>>}
    ELSE LET shorter == SeqsUpTo(S, n - 1)
         IN  shorter \cup { Append(q, e) : q \in {r \in shorter : Len(r) = n - 1}, e \in S }

Replies ==
    { [kind |-> "raises", parts |-> <<>>],
      [kind |-> "no_candidates", parts |-> <<>>] }
    \cup { [kind |-> "parts", parts |-> q] : q \in SeqsUpTo(Parts, MaxParts) }

NoReply == [kind |-> "none", parts |-> <<>>]

----------------------------------------------------------------------------
(* Extraction of the actions (solve_captcha; analyze_state repeats the     *)
(* same statements)                                                        *)

IsCall(part) == part.kind = "call"

\* mutant: the missing destination_y is not filled in
FillDestination_Skipped(action_name, args) == args

\* drag_and_drop without destination_y: copy the normalized y
FillDestination(action_name, args) ==
    IF /\ action_name = "drag_and_drop"
       /\ "destination_x" \in DOMAIN args
       /\ "destination_y" \notin DOMAIN args
       /\ "y" \in DOMAIN args
    THEN args @@ ("destination_y" :> args["y"])
    ELSE args

DenormalizeArgs(args, screen_width, screen_height) ==
    IF "x" \in DOMAIN args /\ "y" \in DOMAIN args
    THEN IF "destination_x" \in DOMAIN args /\ "destination_y" \in DOMAIN args
         THEN [args EXCEPT !["x"] = denormalize_x(@, screen_width),
                           !["y"] = denormalize_y(@, screen_height),
                           !["destination_x"] = denormalize_x(@, screen_width),
                           !["destination_y"] = denormalize_y(@, screen_height)]
         ELSE [args EXCEPT !["x"] = denormalize_x(@, screen_width),
                           !["y"] = denormalize_y(@, screen_height)]
    ELSE args

\* {'type': action_name, **args}
MakeAction(action_name, args) == args @@ ("type" :> action_name)

\* mutant: the actions come out in reverse order
ExtractActions_Reversed(parts, screen_width, screen_height) ==
    LET fc == SelectSeq(parts, IsCall)
    IN  [i \in 1..Len(fc) |->
            MakeAction(fc[Len(fc) + 1 - i].name,
                       DenormalizeArgs(FillDestination(fc[Len(fc) + 1 - i].name,
                                                       fc[Len(fc) + 1 - i].args),
                                       screen_width, screen_height))]

ExtractActions(parts, screen_width, screen_height) ==
    LET fc == SelectSeq(parts, IsCall)
    IN  [i \in 1..Len(fc) |->
            MakeAction(fc[i].name,
                       DenormalizeArgs(FillDestination(fc[i].name, fc[i].args),
                                       screen_width, screen_height))]

\* the first part with a non-empty text, "" for None
IsText(part) == part.kind = "text" /\ part.text # ""

TextResponse(parts) ==
    LET t == SelectSeq(parts, IsText)
    IN  IF t = <<>> THEN "" ELSE t[1].text

Or(a, b) == IF a = "" THEN b ELSE a

----------------------------------------------------------------------------
(* The handlers.  A handler that reaches the model call stops there        *)
(* ("calling") until the call returns or raises; everything else runs to   *)
(* the response in one step.                                               *)

NoVw == [w |-> 0, h |-> 0]
NoDn == [fn |-> "none", v |-> 0, d |-> 0, out |-> 0]

\* number of requests handled at the same time
NumSlots == 2
Slots == 1..NumSlots

\* a handler with its request, locals and response
Slot(p, r, v, c, m, code, body) ==
    [pc |-> p, req |-> r, vw |-> v, calls |-> c, reply |-> m,
     status |-> code, payload |-> body]

IdleSlot == Slot("idle", NoReq, NoVw, 0, [kind |-> "none", parts |-> <<>>], 0, <<>>)

\* the module globals as set at import
Globals == [w |-> SCREEN_WIDTH, h |-> SCREEN_HEIGHT]

Respond(code, body) ==
    /\ pc' = "responded"
    /\ status' = code
    /\ payload' = body

\* except Exception as e: ... 500 (solve_captcha, analyze_state)
Failure(e) == [success |-> FALSE, error |-> e]

\* /analyze-strategy.  genai is the google.genai package (it provides
\* genai.Client and types); it has no GenerativeModel, so the handler raises
\* AttributeError before it reaches generate_content.
analyze_strategy ==
    /\ pc = "idle"
    /\ \E r \in Requests("analyze_strategy") :
        /\ req' = r
        /\ IF r.kind = "unparseable"
           THEN Respond(500, [success |-> FALSE, message |-> "400 Bad Request"])
           ELSE IF r.kind = "null"
           THEN Respond(500, [success |-> FALSE,
                              message |-> "'NoneType' object has no attribute 'get'"])
           ELSE IF NoScreenshot(r.json)
           THEN Respond(400, [success |-> FALSE, message |-> "No screenshot provided"])
           ELSE IF DecodeRaises(r.json)
           THEN Respond(500, [success |-> FALSE, message |-> "Incorrect padding"])
           ELSE Respond(500, [success |-> FALSE,
                              message |-> "module 'google.genai' has no attribute 'GenerativeModel'"])
    /\ UNCHANGED <<vw, calls, reply, dn, slots, glob>>

\* /solve-captcha up to client.models.generate_content
solve_captcha_begin ==
    /\ pc = "idle"
    /\ \E r \in Requests("solve_captcha") :
        /\ req' = r
        /\ IF r.kind = "unparseable"
           THEN Respond(500, Failure("400 Bad Request")) /\ UNCHANGED <<vw, calls>>
           ELSE IF r.kind = "null" \/ DOMAIN r.json = {}
           THEN Respond(400, [error |-> "No JSON data provided"]) /\ UNCHANGED <<vw, calls>>
           ELSE IF NoScreenshot(r.json)
           THEN /\ Respond(400, [error |-> "screenshot is required"])
                /\ vw' = [w |-> Get(r.json, "screen_width", SCREEN_WIDTH),
                          h |-> Get(r.json, "screen_height", SCREEN_HEIGHT)]
                /\ UNCHANGED calls
           ELSE /\ vw' = [w |-> Get(r.json, "screen_width", SCREEN_WIDTH),
                          h |-> Get(r.json, "screen_height", SCREEN_HEIGHT)]
                /\ IF DecodeRaises(r.json)
                   THEN Respond(500, Failure("Incorrect padding")) /\ UNCHANGED calls
                   ELSE /\ pc' = "calling"
                        /\ calls' = calls + 1
                        /\ UNCHANGED <<status, payload>>
    /\ UNCHANGED <<reply, dn, slots, glob>>

\* mutant: a reply with a text is never reported complete
SolvePayload_TextIncomplete(actions, text_response) ==
    IF actions = <<>> /\ text_response = ""
    THEN [success |-> TRUE, actions |-> <<>>,
          message |-> "No actions needed", complete |-> TRUE]
    ELSE [success |-> TRUE, actions |-> actions,
          message |-> Or(text_response,
                         ToString(Len(actions)) \o " actions to execute"),
          complete |-> FALSE]

SolvePayload(actions, text_response) ==
    IF actions = <<>>
    THEN [success |-> TRUE, actions |-> <<>>,
          message |-> Or(text_response, "No actions needed"),
          complete |-> TRUE]
    ELSE [success |-> TRUE, actions |-> actions,
          message |-> Or(text_response,
                         ToString(Len(actions)) \o " actions to execute"),
          complete |-> FALSE]

SolveResponse(parts, screen_width, screen_height) ==
    SolvePayload(ExtractActions(parts, screen_width, screen_height),
                 TextResponse(parts))

\* mutant: a response without candidates is taken for "nothing left to do"
SolveOutcome_NoCandidatesDone(m, screen_width, screen_height) ==
    IF m.kind = "raises"
    THEN [code |-> 500, body |-> Failure("model call failed")]
    ELSE [code |-> 200, body |-> SolveResponse(m.parts, screen_width, screen_height)]

\* status and body after generate_content produced m
SolveOutcome(m, screen_width, screen_height) ==
    IF m.kind = "raises"
    THEN [code |-> 500, body |-> Failure("model call failed")]
    ELSE IF m.kind = "no_candidates"
    THEN [code |-> 500, body |-> Failure("list index out of range")]
    ELSE [code |-> 200, body |-> SolveResponse(m.parts, screen_width, screen_height)]

SendOutcome(o) == Respond(o.code, o.body)

\* /solve-captcha from the return of generate_content
solve_captcha_end ==
    /\ pc = "calling"
    /\ req.endpoint = "solve_captcha"
    /\ \E m \in Replies :
        /\ reply' = m
        /\ SendOutcome(SolveOutcome(m, vw.w, vw.h))
    /\ UNCHANGED <<req, vw, calls, dn, slots, glob>>

\* /analyze-state up to client.models.generate_content
analyze_state_begin ==
    /\ pc = "idle"
    /\ \E r \in Requests("analyze_state") :
        /\ req' = r
        /\ IF r.kind = "unparseable"
           THEN Respond(500, Failure("400 Bad Request")) /\ UNCHANGED calls
           ELSE IF r.kind = "null"
           THEN Respond(500, Failure("'NoneType' object has no attribute 'get'"))
                /\ UNCHANGED calls
           ELSE IF NoScreenshot(r.json)
           THEN Respond(400, [error |-> "screenshot is required"]) /\ UNCHANGED calls
           ELSE IF DecodeRaises(r.json)
           THEN Respond(500, Failure("Incorrect padding")) /\ UNCHANGED calls
           ELSE /\ pc' = "calling"
                /\ calls' = calls + 1
                /\ UNCHANGED <<status, payload>>
    /\ UNCHANGED <<vw, reply, dn, slots, glob>>

StatePayload(actions, text_response, complete) ==
    [complete |-> complete, next_actions |-> actions,
     message |-> Or(text_response,
                    IF complete THEN "Complete"
                    ELSE ToString(Len(actions)) \o " more actions needed")]

\* mutant: the viewport of the request is used, as in solve_captcha
StateActions_RequestViewport(parts) ==
    ExtractActions(parts, Get(req.json, "screen_width", SCREEN_WIDTH),
                   Get(req.json, "screen_height", SCREEN_HEIGHT))

StateActions(parts) == ExtractActions(parts, SCREEN_WIDTH, SCREEN_HEIGHT)

StateComplete(actions, text_response) ==
    StatePayload(actions, text_response, Len(actions) = 0)

StateResponse(parts) == StateComplete(StateActions(parts), TextResponse(parts))

\* status and body after generate_content produced m
StateOutcome(m) ==
    IF m.kind = "raises"
    THEN [code |-> 500, body |-> Failure("model call failed")]
    ELSE IF m.kind = "no_candidates"
    THEN [code |-> 500, body |-> Failure("list index out of range")]
    ELSE [code |-> 200, body |-> StateResponse(m.parts)]

\* /analyze-state from the return of generate_content
analyze_state_end ==
    /\ pc = "calling"
    /\ req.endpoint = "analyze_state"
    /\ \E m \in Replies :
        /\ reply' = m
        /\ SendOutcome(StateOutcome(m))
    /\ UNCHANGED <<req, vw, calls, dn, slots, glob>>

\* the response is sent; the handler's locals are gone and the next request
\* starts from nothing
Finish ==
    /\ pc = "responded"
    /\ pc' = "idle"
    /\ req' = NoReq
    /\ vw' = NoVw
    /\ calls' = 0
    /\ reply' = NoReply
    /\ status' = 0
    /\ payload' = <<>>
    /\ UNCHANGED <<dn, slots, glob>>

Init ==
    /\ pc = "idle"
    /\ req = NoReq
    /\ vw = NoVw
    /\ calls = 0
    /\ reply = NoReply
    /\ status = 0
    /\ payload = <<>>
    /\ dn = NoDn
    /\ slots = [i \in Slots |-> IdleSlot]
    /\ glob = Globals

Next ==
    \/ analyze_strategy
    \/ solve_captcha_begin
    \/ solve_captcha_end
    \/ analyze_state_begin
    \/ analyze_state_end
    \/ Finish

Spec == Init /\ [][Next]_vars

----------------------------------------------------------------------------
(* The coordinate functions on their own: any normalized value, applied     *)
(* to one of a few viewport dimensions.                                    *)

Dims == {SCREEN_WIDTH, SCREEN_HEIGHT} \cup Widths \cup Heights

DenormInit ==
    /\ pc = "idle"
    /\ req = NoReq
    /\ vw = NoVw
    /\ calls = 0
    /\ reply = NoReply
    /\ status = 0
    /\ payload = <<>>
    /\ dn \in [fn : {"none"}, v : 0..MaxNorm, d : Dims, out : {0}]
    /\ slots = [i \in Slots |-> IdleSlot]
    /\ glob = Globals

call_denormalize_x ==
    /\ dn.fn = "none"
    /\ dn' = [dn EXCEPT !.fn = "denormalize_x", !.out = denormalize_x(dn.v, dn.d)]
    /\ UNCHANGED <<pc, req, vw, calls, reply, status, payload, slots, glob>>

call_denormalize_y ==
    /\ dn.fn = "none"
    /\ dn' = [dn EXCEPT !.fn = "denormalize_y", !.out = denormalize_y(dn.v, dn.d)]
    /\ UNCHANGED <<pc, req, vw, calls, reply, status, payload, slots, glob>>

DenormNext == call_denormalize_x \/ call_denormalize_y

DenormSpec == DenormInit /\ [][DenormNext]_vars

----------------------------------------------------------------------------
(* Concurrent requests.  Every worker runs one of the handlers above with  *)
(* its own request and locals; what the workers share are the module       *)
(* globals.  The steps are the handlers' steps, written as functions of    *)
(* the worker's record.                                                    *)

\* requests and replies served concurrently
ConcObjects ==
    { MkObj(S, "iVBORw0KGgo=", 1000, 600) :
        S \in { {}, {"screen_width", "screen_height"}, {"screenshot"},
                {"screenshot", "screen_width", "screen_height"} } }

ConcRequests(ep) ==
    { [endpoint |-> ep, kind |-> "null", json |-> <<>>] }
    \cup { [endpoint |-> ep, kind |-> "object", json |-> o] : o \in ConcObjects }

ConcReplies ==
    { [kind |-> "raises", parts |-> <<>>] }
    \cup { [kind |-> "parts", parts |-> q] :
            q \in { <<>>, <<Text("Solved")>>,
                    <<Call("click_at", ("x" :> 999) @@ ("y" :> 0))>>,
                    <<Call("drag_and_drop",
                           CoordArgs({"x", "y", "destination_x", "destination_y"}))>> } }

Answer(r, c, v, code, body) ==
    Slot("responded", r, v, c, [kind |-> "none", parts |-> <<>>], code, body)

\* analyze_strategy, whole handler
StrategyStep(r) ==
    IF r.kind = "unparseable"
    THEN Answer(r, 0, NoVw, 500, [success |-> FALSE, message |-> "400 Bad Request"])
    ELSE IF r.kind = "null"
    THEN Answer(r, 0, NoVw, 500,
                [success |-> FALSE, message |-> "'NoneType' object has no attribute 'get'"])
    ELSE IF NoScreenshot(r.json)
    THEN Answer(r, 0, NoVw, 400, [success |-> FALSE, message |-> "No screenshot provided"])
    ELSE IF DecodeRaises(r.json)
    THEN Answer(r, 0, NoVw, 500, [success |-> FALSE, message |-> "Incorrect padding"])
    ELSE Answer(r, 0, NoVw, 500,
                [success |-> FALSE,
                 message |-> "module 'google.genai' has no attribute 'GenerativeModel'"])

\* locals screen_width, screen_height of solve_captcha, defaults read from
\* the module globals g
SolveLocals(r, g) ==
    [w |-> Get(r.json, "screen_width", g.w), h |-> Get(r.json, "screen_height", g.h)]

\* solve_captcha up to the model call
SolveBeginStep(r, g) ==
    IF r.kind = "unparseable"
    THEN Answer(r, 0, NoVw, 500, Failure("400 Bad Request"))
    ELSE IF r.kind = "null" \/ DOMAIN r.json = {}
    THEN Answer(r, 0, NoVw, 400, [error |-> "No JSON data provided"])
    ELSE IF NoScreenshot(r.json)
    THEN Answer(r, 0, SolveLocals(r, g), 400, [error |-> "screenshot is required"])
    ELSE IF DecodeRaises(r.json)
    THEN Answer(r, 0, SolveLocals(r, g), 500, Failure("Incorrect padding"))
    ELSE Slot("calling", r, SolveLocals(r, g), 1, [kind |-> "none", parts |-> <<>>], 0, <<>>)

\* analyze_state up to the model call
StateBeginStep(r) ==
    IF r.kind = "unparseable"
    THEN Answer(r, 0, NoVw, 500, Failure("400 Bad Request"))
    ELSE IF r.kind = "null"
    THEN Answer(r, 0, NoVw, 500, Failure("'NoneType' object has no attribute 'get'"))
    ELSE IF NoScreenshot(r.json)
    THEN Answer(r, 0, NoVw, 400, [error |-> "screenshot is required"])
    ELSE IF DecodeRaises(r.json)
    THEN Answer(r, 0, NoVw, 500, Failure("Incorrect padding"))
    ELSE Slot("calling", r, NoVw, 1, [kind |-> "none", parts |-> <<>>], 0, <<>>)

Returned(sl, m, o) ==
    [sl EXCEPT !.pc = "responded", !.reply = m, !.status = o.code, !.payload = o.body]

\* solve_captcha from the return of the model call
SolveEndStep(sl, m) == Returned(sl, m, SolveOutcome(m, sl.vw.w, sl.vw.h))

\* analyze_state from the return of the model call: SCREEN_WIDTH and
\* SCREEN_HEIGHT are read from the module globals g at this point
ConcStateOutcome(m, g) ==
    IF m.kind = "raises"
    THEN [code |-> 500, body |-> Failure("model call failed")]
    ELSE IF m.kind = "no_candidates"
    THEN [code |-> 500, body |-> Failure("list index out of range")]
    ELSE [code |-> 200,
          body |-> StateComplete(ExtractActions(m.parts, g.w, g.h), TextResponse(m.parts))]

StateEndStep(sl, m, g) == Returned(sl, m, ConcStateOutcome(m, g))

\* mutant: solve_captcha keeps its viewport in the module globals
GlobalsAfter_SolveStores(g, sl) ==
    IF sl.req.endpoint = "solve_captcha" /\ sl.pc = "calling" THEN sl.vw ELSE g

\* the module globals after a handler step that left the worker at sl: no
\* handler assigns SCREEN_WIDTH or SCREEN_HEIGHT
GlobalsAfter(g, sl) == g

Step(i, sl) ==
    /\ slots' = [slots EXCEPT ![i] = sl]
    /\ glob' = GlobalsAfter(glob, sl)
    /\ UNCHANGED <<pc, req, vw, calls, reply, status, payload, dn>>

conc_analyze_strategy ==
    \E i \in Slots : \E r \in ConcRequests("analyze_strategy") :
        /\ slots[i].pc = "idle"
        /\ Step(i, StrategyStep(r))

conc_solve_captcha_begin ==
    \E i \in Slots : \E r \in ConcRequests("solve_captcha") :
        /\ slots[i].pc = "idle"
        /\ Step(i, SolveBeginStep(r, glob))

conc_solve_captcha_end ==
    \E i \in Slots : \E m \in ConcReplies :
        /\ slots[i].pc = "calling"
        /\ slots[i].req.endpoint = "solve_captcha"
        /\ Step(i, SolveEndStep(slots[i], m))

conc_analyze_state_begin ==
    \E i \in Slots : \E r \in ConcRequests("analyze_state") :
        /\ slots[i].pc = "idle"
        /\ Step(i, StateBeginStep(r))

conc_analyze_state_end ==
    \E i \in Slots : \E m \in ConcReplies :
        /\ slots[i].pc = "calling"
        /\ slots[i].req.endpoint = "analyze_state"
        /\ Step(i, StateEndStep(slots[i], m, glob))

\* the response is sent and the worker takes the next request
conc_finish ==
    \E i \in Slots :
        /\ slots[i].pc = "responded"
        /\ Step(i, IdleSlot)

ConcNext ==
    \/ conc_analyze_strategy
    \/ conc_solve_captcha_begin
    \/ conc_solve_captcha_end
    \/ conc_analyze_state_begin
    \/ conc_analyze_state_end
    \/ conc_finish

ConcSpec == Init /\ [][ConcNext]_vars

----------------------------------------------------------------------------
(* Properties                                                              *)

Responded == pc = "responded"

\* the request carried a JSON object
IsObject == req.kind = "object"

\* the object has no screenshot, or an empty one
ScreenshotMissing ==
    "screenshot" \notin DOMAIN req.json \/ req.json["screenshot"] = ""

\* a response built from the parts of a model reply
FromParts == Responded /\ reply.kind = "parts"

\* the function-call parts of the reply, in emission order
ReplyCalls == SelectSeq(reply.parts, LAMBDA p : p.kind = "call")

\* the action list of a successful response
RespActions ==
    IF req.endpoint = "solve_captcha" THEN payload.actions ELSE payload.next_actions

CoordKeys == {"x", "y", "destination_x", "destination_y"}

\* the viewport the endpoint is documented to use
ExpectedWidth ==
    IF req.endpoint = "solve_captcha" /\ "screen_width" \in DOMAIN req.json
    THEN req.json["screen_width"] ELSE 1440

ExpectedHeight ==
    IF req.endpoint = "solve_captcha" /\ "screen_height" \in DOMAIN req.json
    THEN req.json["screen_height"] ELSE 900

\* the pixel value of normalized argument key k of a call
Pixel(k, v) ==
    IF k \in {"x", "destination_x"}
    THEN denormalize_x(v, ExpectedWidth)
    ELSE denormalize_y(v, ExpectedHeight)

\* C1: on each of the three endpoints a JSON object without a screenshot
\* (or with an empty one) is answered 400, and the model is never called
\* for that request.
C1_MissingScreenshotIs400 ==
    (req.endpoint \in Endpoints /\ IsObject /\ ScreenshotMissing)
        => /\ Responded
           /\ status = 400
           /\ calls = 0
           /\ reply = NoReply

C1_Witness ==
    /\ Responded
    /\ req.endpoint = "analyze_state"
    /\ IsObject
    /\ "screenshot" \in DOMAIN req.json
    /\ req.json["screenshot"] = ""
    /\ status = 400

\* C2: on /solve-captcha and /analyze-state a reply without function-call
\* parts gives complete = true and an empty action list, whatever text
\* comes with it; a reply with a function-call part gives complete = false.
C2_CompleteIffNoCalls ==
    FromParts =>
        /\ status = 200
        /\ (Len(ReplyCalls) = 0 => payload.complete = TRUE /\ RespActions = <<>>)
        /\ (Len(ReplyCalls) > 0 => payload.complete = FALSE)

C2_Witness ==
    /\ FromParts
    /\ req.endpoint = "solve_captcha"
    /\ reply.parts = <<Text("Solved"), Text("Solved")>>
    /\ payload.complete = TRUE
    /\ payload.actions = <<>>

\* C3: N function-call parts give exactly N actions in emission order; the
\* i-th action has type = the i-th call's name, every key of that call's
\* arguments, and the call's value for every key that is not a coordinate.
C3_ActionsFollowCalls ==
    FromParts =>
        /\ Len(RespActions) = Len(ReplyCalls)
        /\ \A i \in 1..Len(ReplyCalls) :
            /\ RespActions[i]["type"] = ReplyCalls[i].name
            /\ DOMAIN ReplyCalls[i].args \subseteq DOMAIN RespActions[i]
            /\ \A k \in DOMAIN ReplyCalls[i].args \ CoordKeys :
                    RespActions[i][k] = ReplyCalls[i].args[k]

C3_Witness ==
    /\ FromParts
    /\ req.endpoint = "analyze_state"
    /\ Len(ReplyCalls) = 2
    /\ ReplyCalls[1].name = "type_text_at"
    /\ ReplyCalls[2].name = "drag_and_drop"
    /\ RespActions[1]["type"] = "type_text_at"
    /\ RespActions[1]["text"] = "abc"
    /\ RespActions[2]["type"] = "drag_and_drop"

\* C4: a model call that raises, or returns no candidates, ends in a 500
\* response with success = false and an error text, without an action list.
C4_ModelFailureIs500 ==
    (Responded /\ reply.kind \in {"raises", "no_candidates"})
        => /\ status = 500
           /\ payload.success = FALSE
           /\ "error" \in DOMAIN payload
           /\ payload.error # ""
           /\ "actions" \notin DOMAIN payload
           /\ "next_actions" \notin DOMAIN payload

C4_Witness ==
    /\ Responded
    /\ req.endpoint = "solve_captcha"
    /\ reply.kind = "no_candidates"
    /\ status = 500

\* C5: every invocation of one of the three endpoints that passes validation
\* and image decoding has made exactly one model call when it responds.
C5_OneCallPerInvocation ==
    (Responded /\ IsObject /\ ~ScreenshotMissing
               /\ req.json["screenshot"] \in Decodable)
        => calls = 1

\* C6: on /solve-captcha and /analyze-state a missing or empty image, a body
\* that is not parseable JSON, and a body that parses to null are answered 400
\* without a model call.
C6_ClientInputErrorIs400 ==
    (/\ Responded
     /\ req.endpoint \in {"solve_captcha", "analyze_state"}
     /\ (req.kind \in {"unparseable", "null"} \/ ScreenshotMissing))
        => status = 400 /\ calls = 0

\* C7: denormalize_x(v, d) and denormalize_y(v, d) equal floor(v * d / 1000)
\* for 0 <= v <= 999 and d > 0.
C7_DenormalizeIsFloor ==
    dn.fn # "none" => dn.out = (dn.v * dn.d) \div 1000

\* C8: a drag_and_drop call with x, y and destination_x but no destination_y
\* comes back with destination_y equal to y, both the pixel value of the
\* normalized y, and destination_x the pixel value of its normalized value.
C8_Case(i) ==
    /\ ReplyCalls[i].name = "drag_and_drop"
    /\ {"x", "y", "destination_x"} \subseteq DOMAIN ReplyCalls[i].args
    /\ "destination_y" \notin DOMAIN ReplyCalls[i].args

C8_HorizontalDrag ==
    FromParts =>
        \A i \in 1..Len(ReplyCalls) :
            C8_Case(i) =>
                /\ "destination_y" \in DOMAIN RespActions[i]
                /\ RespActions[i]["destination_y"] = RespActions[i]["y"]
                /\ RespActions[i]["y"] = Pixel("y", ReplyCalls[i].args["y"])
                /\ RespActions[i]["destination_x"]
                       = Pixel("destination_x", ReplyCalls[i].args["destination_x"])

C8_Witness ==
    /\ FromParts
    /\ req.endpoint = "solve_captcha"
    /\ "screen_height" \in DOMAIN req.json
    /\ Len(ReplyCalls) = 1
    /\ C8_Case(1)
    /\ RespActions[1]["destination_y"] = 300
    /\ RespActions[1]["y"] = 300

\* C9: /solve-captcha denormalizes with the request's screen_width and
\* screen_height where supplied and 1440 x 900 where omitted; /analyze-state
\* always with 1440 x 900; source and destination use the same viewport.
C9_Viewport ==
    FromParts =>
        \A i \in 1..Len(ReplyCalls) :
            /\ {"x", "y"} \subseteq DOMAIN ReplyCalls[i].args
                => /\ RespActions[i]["x"] = Pixel("x", ReplyCalls[i].args["x"])
                   /\ RespActions[i]["y"] = Pixel("y", ReplyCalls[i].args["y"])
            /\ CoordKeys \subseteq DOMAIN ReplyCalls[i].args
                => /\ RespActions[i]["destination_x"]
                          = Pixel("destination_x", ReplyCalls[i].args["destination_x"])
                   /\ RespActions[i]["destination_y"]
                          = Pixel("destination_y", ReplyCalls[i].args["destination_y"])

C9_Witness ==
    /\ FromParts
    /\ req.endpoint = "analyze_state"
    /\ "screen_width" \in DOMAIN req.json
    /\ "screen_height" \in DOMAIN req.json
    /\ Len(ReplyCalls) = 1
    /\ CoordKeys \subseteq DOMAIN ReplyCalls[1].args
    /\ RespActions[1]["x"] = denormalize_x(ReplyCalls[1].args["x"], 1440)
    /\ RespActions[1]["x"] # denormalize_x(ReplyCalls[1].args["x"], req.json["screen_width"])
    /\ RespActions[1]["destination_y"] = denormalize_y(ReplyCalls[1].args["destination_y"], 900)

\* C10: every coordinate key the model supplied holds, in the returned
\* action, the pixel value of the model's normalized value, whichever other
\* coordinate keys the call has.
C10_EachAxisDenormalized ==
    FromParts =>
        \A i \in 1..Len(ReplyCalls) :
            \A k \in DOMAIN ReplyCalls[i].args \cap CoordKeys :
                RespActions[i][k] = Pixel(k, ReplyCalls[i].args[k])

\* C12: in a successful /solve-captcha or /analyze-state response built with
\* a positive viewport from a reply whose coordinates lie in 0..999, every x
\* and destination_x lies in 0..width-1 and every y and destination_y in
\* 0..height-1.
C12_ActionsInsideViewport ==
    (FromParts /\ status = 200 /\ ExpectedWidth > 0 /\ ExpectedHeight > 0) =>
        \A i \in 1..Len(RespActions) :
            \A k \in DOMAIN RespActions[i] \cap CoordKeys :
                /\ RespActions[i][k] >= 0
                /\ RespActions[i][k] <= (IF k \in {"x", "destination_x"}
                                         THEN ExpectedWidth ELSE ExpectedHeight) - 1

\* C11: under any interleaving of requests to the three endpoints the
\* default viewport is never modified, and two requests with the same body
\* whose model calls produced the same reply get the same response, whatever
\* the other requests in flight were.
SameResponse(a, b) == a.status = b.status /\ a.payload = b.payload

C11_RequestsIndependent ==
    /\ glob = [w |-> 1440, h |-> 900]
    /\ \A i \in Slots : \A j \in Slots :
        (/\ slots[i].pc = "responded"
         /\ slots[j].pc = "responded"
         /\ slots[i].req = slots[j].req
         /\ slots[i].reply = slots[j].reply)
            => SameResponse(slots[i], slots[j])
    /\ \A i \in Slots :
        (/\ slots[i].pc = "responded"
         /\ slots[i].req.endpoint = "analyze_state"
         /\ slots[i].reply.kind = "parts")
            => slots[i].payload.next_actions
                   = ExtractActions(slots[i].reply.parts, 1440, 900)

C11_Witness ==
    /\ slots[1].pc = "responded"
    /\ slots[1].req.endpoint = "solve_captcha"
    /\ "screen_width" \in DOMAIN slots[1].req.json
    /\ slots[1].status = 200
    /\ Len(slots[1].payload.actions) = 1
    /\ slots[1].payload.actions[1]["x"] = 999
    /\ slots[2].pc = "responded"
    /\ slots[2].req.endpoint = "analyze_state"
    /\ slots[2].reply = slots[1].reply
    /\ slots[2].status = 200
    /\ slots[2].payload.next_actions[1]["x"] = 1438

====
